---- MODULE Spec2Model ----
(***************************************************************************)
(* Verification model of freshrss_embeeds:                                 *)
(*   freshrss_sync.py            the sync script (scan, sync_feed,         *)
(*                               regenerate_html)                          *)
(*   freshrss_html_generator.py  the generator (process_feed, the bandcamp *)
(*                               resolver, generate_feed_html)             *)
(* A PageMap is a Python dict in insertion order: a sequence of            *)
(* [key, items] pairs.  An entry is [id, uid]: id = 0 stands for a falsy   *)
(* id (missing, None or ""), uid names the entry (title, url, ...).        *)
(***************************************************************************)
EXTENDS Integers, Sequences, FiniteSets, TLC

VARIABLES
    pc,             \* position of the sync script: scanned, synced, written, skipped
    round,          \* number of the sync run on this artifact
    pages_data,     \* feed_info['pages_data'], the PageMap read by scan_feed_htmls
    listened_ids,   \* the ListenedSet of the feed
    synced_pages,   \* PageMap returned by the last sync_feed
    stats,          \* counters returned by the last sync_feed
    prev_pages,     \* PageMap returned by the sync_feed of the previous run
    artifact        \* the feed's HTML file

syncVars == <<pc, round, pages_data, listened_ids, synced_pages, stats, prev_pages, artifact>>

VARIABLES
    gpc,            \* position of the generator: loop, done, generated (idle in the sync model)
    article,        \* the article of the current iteration of process_feed
    bc_urls,        \* bandcamp URLs of the article not yet visited by the for loop
    yt_urls,        \* youtube URLs of the article not yet visited
    sc_urls,        \* soundcloud URLs of the article not yet visited
    processed,      \* processed_bandcamp / processed_youtube / processed_soundcloud
    embeds,         \* embeds['bandcamp'], embeds['youtube'], embeds['soundcloud']
    resolver,       \* the running call of get_bandcamp_embed
    first,          \* history: for each URL, the first article that mentioned it
    calls,          \* history: number of get_bandcamp_embed calls per URL
    omitted,        \* history: URLs reported as "duplicado (omitido)"
    items_per_page, \* the page size given to generate_feed_html
    all_embeds,     \* the sorted list that generate_feed_html paginates
    gen_pages       \* pages_data built by generate_feed_html

genVars == <<gpc, article, bc_urls, yt_urls, sc_urls, processed, embeds, resolver,
             first, calls, omitted, items_per_page, all_embeds, gen_pages>>

VARIABLES
    cpc,            \* position of one call of fetch_bandcamp_embed_from_html: page, returned
    html_content,   \* its argument, the downloaded page
    embed_html      \* what it returned

cascVars == <<cpc, html_content, embed_html>>

VARIABLES
    rpc,            \* position of main of the sync script over all feeds:
                    \* scan, loop, sync, synced, done, aborted
    files,          \* the HTML files of feed_dir in sorted order
    feeds_info,     \* what scan_feed_htmls returned: [feed, pages_data] per scanned feed
    reported,       \* feeds for which scan_feed_htmls printed a warning or an error
    cur,            \* scan: the file being read; loop: the entry of feeds_info being synced
    mem,            \* locals of the running sync_feed
    run_listened,   \* listened_ids of the feeds
    written,        \* feeds whose file regenerate_html has written
    args,           \* --stats-only and --output-dir of the command line
    out_dir         \* the files of args.output_dir when it is another directory

runVars == <<rpc, files, feeds_info, reported, cur, mem, run_listened, written, args, out_dir>>

VARIABLES
    main_pc,        \* position of main of the generator: process, generate, done
    arg_feeds,      \* args.feeds and args.categories with what the server holds for each
    arg_names,      \* the title of each feed, the name of each category
    resolutions,    \* what get_bandcamp_embed returns for each URL
    arg_items_per_page, \* args.items_per_page
    feed_idx,       \* index of the running for loop of main
    all_results,    \* all_results of main
    output_dir,     \* the files of args.output_dir: file name -> feed written, allPagesData
    invocation,     \* how many times the generator was started on these inputs
    prev_output_dir, \* output_dir as the previous invocation left it
    left_processed, \* the processed_* sets as the last call of process_feed left them
    feed_calls      \* per feed processed: how often get_bandcamp_embed was called per URL

mainVars == <<main_pc, arg_feeds, arg_names, resolutions, arg_items_per_page, feed_idx, all_results,
              output_dir, invocation, prev_output_dir, left_processed, feed_calls>>

VARIABLES
    epc,            \* position of the extraction of two articles: texts, extracted
    ext_texts,      \* article['content'] + ' ' + article['link'] of the two articles
    ext_lists,      \* per article, the lists the three extractors returned
    ext_youtube     \* embeds['youtube'] after both articles

extVars == <<epc, ext_texts, ext_lists, ext_youtube>>

vars == <<syncVars, genVars, cascVars, runVars, mainVars, extVars>>

(* what each program leaves alone *)
offSync == <<genVars, cascVars, runVars, mainVars, extVars>>
offGen  == <<syncVars, cascVars, runVars, mainVars, extVars>>
offCasc == <<syncVars, genVars, runVars, mainVars, extVars>>
offRun  == <<syncVars, genVars, cascVars, mainVars, extVars>>
offMain == <<syncVars, genVars, cascVars, runVars, extVars>>
offExt  == <<syncVars, genVars, cascVars, runVars, mainVars>>

----------------------------------------------------------------------------
(* Bounds of the sync model *)
MaxPages == 2
MaxEntries == 3
MaxId == 2
MaxRounds == 4

(* items_per_page = 8, the generator's default page size *)
DefaultItemsPerPage == 8

(* number of "};" that follow the allPagesData block in the generated page *)
TemplateTail == 2

Min(a, b) == IF a < b THEN a ELSE b

RECURSIVE SumLens(_)
SumLens(pages) ==
    IF pages = <<>> THEN 0
    ELSE Len(pages[1].items) + SumLens(Tail(pages))

----------------------------------------------------------------------------
(* sync_feed *)

NoStats == [original |-> 0, kept |-> 0, removed |-> 0]

(* One iteration of the inner loop of sync_feed on one item. *)
SyncItemSkipsIdCheck(acc, item, L) ==
    IF item.id \in L
    THEN [acc EXCEPT !.original = @ + 1, !.removed = @ + 1]
    ELSE [acc EXCEPT !.original = @ + 1, !.kept = @ + 1,
                     !.filtered = Append(@, item)]

SyncItemUncountedNoId(acc, item, L) ==
    IF item.id = 0
    THEN [acc EXCEPT !.original = @ + 1, !.filtered = Append(@, item)]
    ELSE IF item.id \in L
         THEN [acc EXCEPT !.original = @ + 1, !.removed = @ + 1]
         ELSE [acc EXCEPT !.original = @ + 1, !.kept = @ + 1,
                          !.filtered = Append(@, item)]

SyncItem(acc, item, L) ==
    IF item.id = 0
    THEN [acc EXCEPT !.original = @ + 1, !.kept = @ + 1,
                     !.filtered = Append(@, item)]
    ELSE IF item.id \in L
         THEN [acc EXCEPT !.original = @ + 1, !.removed = @ + 1]
         ELSE [acc EXCEPT !.original = @ + 1, !.kept = @ + 1,
                          !.filtered = Append(@, item)]

RECURSIVE SyncItems(_, _, _)
SyncItems(acc, items, L) ==
    IF items = <<>> THEN acc
    ELSE SyncItems(SyncItem(acc, items[1], L), Tail(items), L)

(* The outer loop: pages in stored order. *)
RECURSIVE SyncLoop(_, _, _)
RECURSIVE SyncLoopLastPageFirst(_, _, _)
SyncLoopLastPageFirst(acc, pages, L) ==
    IF pages = <<>> THEN acc
    ELSE SyncItems(SyncLoopLastPageFirst(acc, Tail(pages), L), pages[1].items, L)

SyncLoop(acc, pages, L) ==
    IF pages = <<>> THEN acc
    ELSE SyncLoop(SyncItems(acc, pages[1].items, L), Tail(pages), L)

(* PASO 2: the chunk size, read off the first stored page. *)
ItemsPerPageFromPageCount(pages) ==
    IF pages # <<>> /\ Len(pages[1].items) > 0
    THEN Len(pages)
    ELSE DefaultItemsPerPage

ItemsPerPageOfLastPage(pages) ==
    IF pages # <<>> /\ Len(pages[Len(pages)].items) > 0
    THEN Len(pages[Len(pages)].items)
    ELSE DefaultItemsPerPage

ItemsPerPageOfPageOne(pages) ==
    IF \E k \in DOMAIN pages : pages[k].key = 1 /\ Len(pages[k].items) > 0
    THEN Len(pages[CHOOSE k \in DOMAIN pages : pages[k].key = 1].items)
    ELSE DefaultItemsPerPage

ItemsPerPage(pages) ==
    IF pages # <<>> /\ Len(pages[1].items) > 0
    THEN Len(pages[1].items)
    ELSE DefaultItemsPerPage

(* for i in range(0, len(all), ipp): synced_pages[str(i // ipp + 1)] = all[i:i+ipp] *)
RecompactNumbersByIndex(all, ipp) ==
    LET starts == {i \in 0..(Len(all) - 1) : i % ipp = 0}
    IN  [k \in 1..Cardinality(starts) |->
            LET i == (k - 1) * ipp
            IN  [key   |-> i + 1,
                 items |-> SubSeq(all, i + 1, Min(i + ipp, Len(all)))]]

Recompact(all, ipp) ==
    LET starts == {i \in 0..(Len(all) - 1) : i % ipp = 0}
    IN  [k \in 1..Cardinality(starts) |->
            LET i == (k - 1) * ipp
            IN  [key   |-> (i \div ipp) + 1,
                 items |-> SubSeq(all, i + 1, Min(i + ipp, Len(all)))]]

sync_feed(pages, L) ==
    LET acc == SyncLoop([filtered |-> <<>>, original |-> 0, kept |-> 0, removed |-> 0],
                        pages, L)
    IN  [pages |-> Recompact(acc.filtered, ItemsPerPage(pages)),
         stats |-> [original |-> acc.original, kept |-> acc.kept,
                    removed |-> acc.removed]]

----------------------------------------------------------------------------
(* The HTML file.  data: the allPagesData literal; tp: the totalPages       *)
(* constant (-1 when the line is gone); hdr: the header statistics; tail:   *)
(* how many "};" follow the data block in the script.                       *)

GeneratedArtifact(pages) ==
    [data |-> pages, tp |-> Len(pages),
     hdr |-> [total |-> SumLens(pages), pages |-> Len(pages)],
     tail |-> TemplateTail]

EmptyShell == << [key |-> 1, items |-> <<>>] >>

(* re.sub(r'const allPagesData = {.+?};', ...): ".+?" needs one character,  *)
(* so on the literal "{}" the match runs on to the next "};" of the script, *)
(* taking the totalPages line and one "};" with it; with none left it fails.*)
SubAllPagesData(html, pages) ==
    IF html.data # <<>>
    THEN [html EXCEPT !.data = pages]
    ELSE IF html.tail > 0
         THEN [html EXCEPT !.data = pages, !.tp = -1, !.tail = @ - 1]
         ELSE html

SubTotalPages(html, n) ==
    IF html.tp >= 0 THEN [html EXCEPT !.tp = n] ELSE html

SubHeader(html, t, p) == [html EXCEPT !.hdr = [total |-> t, pages |-> p]]

regenerate_html(html, synced) ==
    LET total_items == SumLens(synced)
        total_pages == Len(synced)
        h1 == SubAllPagesData(html, synced)
        h2 == SubTotalPages(h1, total_pages)
        h3 == SubHeader(h2, total_items, total_pages)
    IN  IF total_pages = 0
        THEN SubHeader(SubTotalPages(SubAllPagesData(h3, EmptyShell), 1), 0, 1)
        ELSE h3

(* scan_feed_htmls finds 'const allPagesData = ({.+?});' and parses it: on  *)
(* the literal "{}" the match either fails or runs into script code that    *)
(* json.loads rejects, and the feed is left out of feeds_info.              *)
Scannable(html) == html.data # <<>>

----------------------------------------------------------------------------
(* Inputs *)

RECURSIVE Chunked(_, _, _)
(* lens: page lengths; ids: ids of the entries in flattened order *)
Chunked(lens, ids, from) ==
    IF lens = <<>> THEN <<>>
    ELSE << [key   |-> 0,
             items |-> [j \in 1..lens[1] |-> [id |-> ids[from + j], uid |-> from + j]]] >>
         \o Chunked(Tail(lens), ids, from + lens[1])

Renumber(pages) == [k \in 1..Len(pages) |-> [pages[k] EXCEPT !.key = k]]

RECURSIVE SeqSum(_)
SeqSum(s) == IF s = <<>> THEN 0 ELSE s[1] + SeqSum(Tail(s))

PageLens ==
    UNION {{lens \in [1..np -> 0..MaxEntries] : SeqSum(lens) <= MaxEntries} : np \in 0..MaxPages}

InputPageMaps ==
    UNION {{Renumber(Chunked(lens, ids, 0)) : ids \in [1..SeqSum(lens) -> 0..MaxId]}
           : lens \in PageLens}

(* a PageMap as json.loads returns it from any file: the keys in any stored order *)
StoredPageMaps ==
    UNION {{[k \in DOMAIN pm |-> pm[perm[k]]] : perm \in Permutations(DOMAIN pm)}
           : pm \in InputPageMaps}

(* Scenario A of the specification: 13 entries at P = 8, page 1 listened *)
ScenarioAPages == Renumber(Chunked(<<8, 5>>, [i \in 1..13 |-> i], 0))
ScenarioAListened == 1..8

SyncInit ==
    /\ pc = "scanned"
    /\ round = 1
    /\ \/ /\ pages_data \in InputPageMaps
          /\ listened_ids \in SUBSET (0..MaxId)
       \/ /\ pages_data = ScenarioAPages
          /\ listened_ids = ScenarioAListened
    /\ synced_pages = <<>>
    /\ stats = NoStats
    /\ prev_pages = <<>>
    /\ artifact = GeneratedArtifact(pages_data)
    /\ Scannable(artifact)

(* sync_feed called on any PageMap *)
FeedInit ==
    /\ pc = "scanned"
    /\ round = 1
    /\ pages_data \in StoredPageMaps
    /\ listened_ids \in SUBSET (0..MaxId)
    /\ synced_pages = <<>>
    /\ stats = NoStats
    /\ prev_pages = <<>>
    /\ artifact = GeneratedArtifact(pages_data)

----------------------------------------------------------------------------
(* Actions of the sync script (main, lines 375-413) *)

SyncFeed ==
    /\ UNCHANGED offSync
    /\ pc = "scanned"
    /\ LET r == sync_feed(pages_data, listened_ids)
       IN  /\ synced_pages' = r.pages
           /\ stats' = r.stats
    /\ prev_pages' = synced_pages
    /\ pc' = "synced"
    /\ UNCHANGED <<round, pages_data, listened_ids, artifact>>

RegenerateHtml ==
    /\ UNCHANGED offSync
    /\ pc = "synced"
    /\ artifact' = regenerate_html(artifact, synced_pages)
    /\ pc' = "written"
    /\ UNCHANGED <<round, pages_data, listened_ids, synced_pages, stats, prev_pages>>

ScanFeedHtmls ==
    /\ UNCHANGED offSync
    /\ pc = "written"
    /\ round < MaxRounds
    /\ Scannable(artifact)
    /\ pages_data' = artifact.data
    /\ round' = round + 1
    /\ pc' = "scanned"
    /\ UNCHANGED <<listened_ids, synced_pages, stats, prev_pages, artifact>>

ScanSkipsFeed ==
    /\ UNCHANGED offSync
    /\ pc = "written"
    /\ round < MaxRounds
    /\ ~Scannable(artifact)
    /\ round' = round + 1
    /\ pc' = "skipped"
    /\ UNCHANGED <<pages_data, listened_ids, synced_pages, stats, prev_pages, artifact>>

SyncNext == SyncFeed \/ RegenerateHtml \/ ScanFeedHtmls \/ ScanSkipsFeed

----------------------------------------------------------------------------
(* One run of main of the sync script over the files of feed_dir, with       *)
(* sync_feed taken one loop iteration at a time.                             *)

(* Bound: number of HTML files in feed_dir *)
MaxFeeds == 2

(* id of an item that json.loads returned as something that is not an       *)
(* object (a string, a number): item.get raises AttributeError               *)
NotAnObject == -1

IsObject(item) == item.id # NotAnObject

(* A file: parses = the allPagesData literal is found and json.loads reads   *)
(* it; sized = every page value has a len(); html = its content              *)
FeedFile(parses, sized, pages) ==
    [parses |-> parses, sized |-> sized, html |-> GeneratedArtifact(pages)]

FeedFiles ==
    {FeedFile(TRUE, TRUE, Renumber(Chunked(<<2>>, <<1, 2>>, 0))),
     FeedFile(TRUE, TRUE, Renumber(Chunked(<<1, 1>>, <<0, 1>>, 0))),
     FeedFile(TRUE, TRUE, Renumber(Chunked(<<3>>, <<1, NotAnObject, 2>>, 0))),
     FeedFile(TRUE, FALSE, Renumber(Chunked(<<1>>, <<2>>, 0))),
     FeedFile(FALSE, TRUE, Renumber(Chunked(<<1>>, <<2>>, 0)))}

(* scan_feed_htmls: the try block of one file succeeds *)
ScanAccepts(file) == file.parses /\ Scannable(file.html) /\ file.sized

RECURSIVE scan_feed_htmls(_, _)
scan_feed_htmls(fs, f) ==
    IF f > Len(fs) THEN [feeds_info |-> <<>>, reported |-> {}]
    ELSE LET rest == scan_feed_htmls(fs, f + 1)
         IN  IF ScanAccepts(fs[f])
             THEN [rest EXCEPT !.feeds_info =
                      <<[feed |-> f, pages_data |-> fs[f].html.data]>> \o @]
             ELSE [rest EXCEPT !.reported = @ \cup {f}]

NoMem ==
    [pages_data |-> <<>>, p |-> 0, i |-> 0, filtered |-> <<>>,
     original |-> 0, kept |-> 0, removed |-> 0, synced_pages |-> <<>>]

(* sync_feed is entered: pages_data = feed_info['pages_data'] is the         *)
(* caller's object, not a copy                                               *)
EnterSyncFeed(pages) ==
    [pages_data |-> pages, p |-> 1, i |-> 1, filtered |-> <<>>,
     original |-> 0, kept |-> 0, removed |-> 0, synced_pages |-> <<>>]

(* the item the loops of PASO 1 are at; the page is left when i is past it *)
AtItem(m) == m.p <= Len(m.pages_data) /\ m.i <= Len(m.pages_data[m.p].items)

(* item.get('id') raises on the item the loops are at *)
Raises(m) == AtItem(m) /\ ~IsObject(m.pages_data[m.p].items[m.i])

(* one iteration of PASO 1 *)
SyncFeedStepDropsListened(m, L) ==
    IF ~AtItem(m) THEN [m EXCEPT !.p = @ + 1, !.i = 1]
    ELSE IF Raises(m) THEN [m EXCEPT !.original = @ + 1]
    ELSE LET items == m.pages_data[m.p].items
             item == items[m.i]
         IN  IF item.id # 0 /\ item.id \in L
             THEN [m EXCEPT !.original = @ + 1, !.removed = @ + 1,
                            !.pages_data[m.p].items =
                                SubSeq(items, 1, m.i - 1) \o SubSeq(items, m.i + 1, Len(items))]
             ELSE [SyncItem(m, item, L) EXCEPT !.i = @ + 1]

SyncFeedStep(m, L) ==
    IF ~AtItem(m) THEN [m EXCEPT !.p = @ + 1, !.i = 1]
    ELSE IF Raises(m) THEN [m EXCEPT !.original = @ + 1]
    ELSE [SyncItem(m, m.pages_data[m.p].items[m.i], L) EXCEPT !.i = @ + 1]

(* PASO 2 and the return *)
SyncFeedReturn(m) ==
    [m EXCEPT !.synced_pages = Recompact(m.filtered, ItemsPerPage(m.pages_data))]

(* --output-dir: absent, the path of feed_dir itself, another directory *)
OutputDirs == {"none", "feed_dir", "other"}

NoArgs == [stats_only |-> FALSE, output_dir |-> "none"]

(* output_path = original_filepath; if output_dir: output_path =             *)
(* os.path.join(output_dir, os.path.basename(original_filepath))             *)
OutputPathIgnoresOutputDir(dir) == "feed_dir"

OutputPath(dir) == IF dir = "none" THEN "feed_dir" ELSE dir

(* a run started with any --stats-only and --output-dir *)
ArgsInit ==
    /\ rpc = "scan"
    /\ files \in [1..MaxFeeds -> FeedFiles]
    /\ feeds_info = <<>>
    /\ reported = {}
    /\ cur = 1
    /\ mem = NoMem
    /\ run_listened \in {{}, {1}}
    /\ written = {}
    /\ args \in [stats_only : BOOLEAN, output_dir : OutputDirs]
    /\ out_dir = <<>>

RunInit ==
    /\ rpc = "scan"
    /\ files \in [1..MaxFeeds -> FeedFiles]
    /\ feeds_info = <<>>
    /\ reported = {}
    /\ cur = 1
    /\ mem = NoMem
    /\ run_listened \in {{}, {1}}
    /\ written = {}
    /\ args = NoArgs
    /\ out_dir = <<>>

(* feeds_info = scan_feed_htmls(args.feed_dir); if not feeds_info: return *)
RunScan ==
    /\ UNCHANGED offRun
    /\ rpc = "scan"
    /\ LET r == scan_feed_htmls(files, 1)
       IN  /\ feeds_info' = r.feeds_info
           /\ reported' = r.reported
           /\ rpc' = IF r.feeds_info = <<>> THEN "done" ELSE "loop"
    /\ UNCHANGED <<files, cur, mem, run_listened, written, args, out_dir>>

(* for feed_name, feed_info in feeds_info.items(): sync_feed(feed_info, ...) *)
RunCallSyncFeed ==
    /\ UNCHANGED offRun
    /\ rpc = "loop"
    /\ cur <= Len(feeds_info)
    /\ mem' = EnterSyncFeed(feeds_info[cur].pages_data)
    /\ rpc' = "sync"
    /\ UNCHANGED <<files, feeds_info, reported, cur, run_listened, written, args, out_dir>>

(* one iteration inside sync_feed; what it does to pages_data it does to     *)
(* the caller's feed_info.  An exception is caught nowhere in main.          *)
RunSyncFeedStep ==
    /\ UNCHANGED offRun
    /\ rpc = "sync"
    /\ mem.p <= Len(mem.pages_data)
    /\ mem' = SyncFeedStep(mem, run_listened)
    /\ feeds_info' = [feeds_info EXCEPT ![cur].pages_data = mem'.pages_data]
    /\ rpc' = IF Raises(mem) THEN "aborted" ELSE "sync"
    /\ UNCHANGED <<files, reported, cur, run_listened, written, args, out_dir>>

RunSyncFeedReturn ==
    /\ UNCHANGED offRun
    /\ rpc = "sync"
    /\ mem.p > Len(mem.pages_data)
    /\ mem' = SyncFeedReturn(mem)
    /\ feeds_info' = [feeds_info EXCEPT ![cur].pages_data = mem'.pages_data]
    /\ rpc' = "synced"
    /\ UNCHANGED <<files, reported, cur, run_listened, written, args, out_dir>>

(* if not args.stats_only: regenerate_html(feed_name, feed_info['file'],     *)
(* synced_pages, output_dir=args.output_dir)                                 *)
RunRegenerateHtml ==
    /\ UNCHANGED offRun
    /\ rpc = "synced"
    /\ LET f == feeds_info[cur].feed
           html == regenerate_html(files[f].html, mem.synced_pages)
       IN  IF args.stats_only
           THEN UNCHANGED <<files, out_dir, written>>
           ELSE /\ IF OutputPath(args.output_dir) = "feed_dir"
                   THEN /\ files' = [files EXCEPT ![f].html = html]
                        /\ UNCHANGED out_dir
                   ELSE /\ out_dir' = [g \in DOMAIN out_dir \cup {f} |->
                                          IF g = f THEN html ELSE out_dir[g]]
                        /\ UNCHANGED files
                /\ written' = written \cup {f}
    /\ cur' = cur + 1
    /\ rpc' = "loop"
    /\ UNCHANGED <<feeds_info, reported, mem, run_listened, args>>

(* the for loop of main ends *)
RunCompleted ==
    /\ UNCHANGED offRun
    /\ rpc = "loop"
    /\ cur > Len(feeds_info)
    /\ rpc' = "done"
    /\ UNCHANGED <<files, feeds_info, reported, cur, mem, run_listened, written, args, out_dir>>

RunNext ==
    \/ RunScan \/ RunCallSyncFeed \/ RunSyncFeedStep \/ RunSyncFeedReturn
    \/ RunRegenerateHtml \/ RunCompleted

----------------------------------------------------------------------------
(* The generator.  A text is a sequence of tokens <<shape, n>>: one link of *)
(* that URL shape carrying the name or video id n.  A URL is <<kind, n>>.   *)

(* Bounds of the generator model *)
MaxArticles == 2
MaxTokens == 2
MaxItemsPerPage == 2

(* get_bandcamp_embed(url, retry_count=3) *)
RetryCount == 3

(* '%Y-%m-%d %H:%M' keeps minutes: 60 seconds of 'published' share a date *)
SecondsPerMinute == 60

TokenOrder == <<(<<"bc", 1>>), (<<"bc", 2>>), (<<"yt_watch", 1>>), (<<"yt_short", 1>>), (<<"sc", 1>>)>>

Tokens == {TokenOrder[i] : i \in DOMAIN TokenOrder}

TokenRank(t) == CHOOSE i \in DOMAIN TokenOrder : TokenOrder[i] = t

Timestamps == {0, 30, 60}

(* Every extractor collects its matches with set(re.findall(...)), so the   *)
(* order of the URLs inside one text has no effect; texts are enumerated up *)
(* to that order, repetitions included.                                     *)
Texts ==
    {t \in UNION {[1..n -> Tokens] : n \in 0..MaxTokens} :
        \A j \in 1..(Len(t) - 1) : TokenRank(t[j]) <= TokenRank(t[j + 1])}

YouTubeShapes == {"yt_watch", "yt_embed", "yt_short"}

extract_bandcamp_url(text) ==
    {text[k] : k \in {j \in DOMAIN text : text[j][1] = "bc"}}

extract_youtube_url(text) ==
    {<<"yt", text[k][2]>> : k \in {j \in DOMAIN text : text[j][1] \in YouTubeShapes}}

extract_soundcloud_url(text) ==
    {text[k] : k \in {j \in DOMAIN text : text[j][1] = "sc"}}

AllUrls == UNION {extract_bandcamp_url(<<t>>) \cup extract_youtube_url(<<t>>)
                  \cup extract_soundcloud_url(<<t>>) : t \in Tokens}

BandcampUrls == {u \in AllUrls : u[1] = "bc"}

(* datetime.fromtimestamp(published).strftime('%Y-%m-%d %H:%M') *)
FormatDate(published) == published \div SecondsPerMinute

----------------------------------------------------------------------------
(* fetch_bandcamp_embed_from_html.  A page is described by what each step   *)
(* of the cascade finds in it.  An embed is the iframe markup: album and    *)
(* track are the digits after "album=" and "track=" in its src (0: none),   *)
(* step is the cascade step that built it (0: no embed, None).              *)

NoEmbed == [album |-> 0, track |-> 0, step |-> 0]

(* Bound: number of fields in the TralbumData block of a page *)
MaxFields == 3

(* The fields of "var TralbumData = {...};" that the regular expressions of  *)
(* METODO 1 can meet: album_id, band_id and id carry digits, type_track and  *)
(* type_album are item_type: "track" and item_type: "album".                 *)
TralbumKeys == {"album_id", "band_id", "id", "type_track", "type_album"}

(* r'"?id"?\s*:\s*(\d+)' is not anchored: it matches the end of any key in  *)
(* ...id followed by digits                                                  *)
IdSuffixKeys == {"album_id", "band_id", "id"}

(* the digits each key carries in the pages of the model *)
KeyValue(k) ==
    CASE k = "album_id" -> 11
      [] k = "id"       -> 12
      [] k = "band_id"  -> 19
      [] OTHER          -> 0

(* a block is the sequence of its fields in page order; <<>>: no block, or   *)
(* one without any of these fields                                           *)
TralbumBlocks == UNION {[1..n -> TralbumKeys] : n \in 0..MaxFields}

(* Bound: number of places of a page outside the two data blocks that the   *)
(* patterns of METODO 3 can meet                                             *)
MaxMarks == 2

(* What the patterns of METODO 3 can meet in the page: an element with        *)
(* data-band-id, data-item-id and data-item-type="album" or "track" in that   *)
(* order, an album_id or track_id field, a link with album=<digits> or        *)
(* track=<digits>                                                             *)
AlbumMarks == {"elem_album", "album_id", "album_url"}
TrackMarks == {"elem_track", "track_id", "track_url"}
GenericMarks == AlbumMarks \cup TrackMarks

(* the digits each of them carries in the pages of the model *)
MarkValue(m) ==
    CASE m = "elem_album" -> 51
      [] m = "elem_track" -> 52
      [] m = "album_id"   -> 53
      [] m = "track_id"   -> 54
      [] m = "album_url"  -> 55
      [] m = "track_url"  -> 56

(* the page outside the data blocks: its marks in page order *)
GenericTexts == UNION {[1..n -> GenericMarks] : n \in 0..MaxMarks}

(* r'data-band-id="(\d+)".*?data-item-id="(\d+)".*?data-item-type="<type>"'   *)
(* with re.DOTALL: the match starts at the first data-band-id after which     *)
(* the type occurs, takes the first data-item-id after it as group(2), and    *)
(* runs on to the first occurrence of the type, in that element or a later one*)
ElementPattern(marks, type) ==
    LET starts == {i \in DOMAIN marks :
                      /\ marks[i] \in {"elem_album", "elem_track"}
                      /\ \E k \in i..Len(marks) : marks[k] = type}
    IN  IF starts = {} THEN 0
        ELSE MarkValue(marks[CHOOSE i \in starts : \A j \in starts : i <= j])

(* one pattern list of METODO 3: the element pattern, the field, the link *)
FirstPattern(marks, elem, field, link) ==
    IF ElementPattern(marks, elem) > 0 THEN ElementPattern(marks, elem)
    ELSE IF \E i \in DOMAIN marks : marks[i] = field THEN MarkValue(field)
    ELSE IF \E i \in DOMAIN marks : marks[i] = link THEN MarkValue(link)
    ELSE 0

(* METODO 3: for pattern in album_id_patterns, then for pattern in            *)
(* track_id_patterns                                                          *)
GenericSearch(marks) ==
    LET album_id == FirstPattern(marks, "elem_album", "album_id", "album_url")
        track_id == FirstPattern(marks, "elem_track", "track_id", "track_url")
    IN  IF album_id > 0 THEN [album |-> album_id, track |-> 0, step |-> 3]
        ELSE IF track_id > 0 THEN [album |-> 0, track |-> track_id, step |-> 3]
        ELSE NoEmbed

Pages ==
    [tralbum   : TralbumBlocks,
     embeddata : {"none", "album", "track"},
     generic   : GenericTexts,
     iframe    : {"none", "album", "track", "both", "plain"}]

(* re.search returns the leftmost match: index of the first field of the     *)
(* block whose key is in keys, 0 when there is none                          *)
FirstField(block, keys) ==
    LET hits == {i \in DOMAIN block : block[i] \in keys}
    IN  IF hits = {} THEN 0 ELSE CHOOSE i \in hits : \A j \in hits : i <= j

(* METODO 1 *)
TralbumData(block) ==
    LET a == FirstField(block, {"album_id"})
        t == FirstField(block, {"type_track", "type_album"})
        i == FirstField(block, IdSuffixKeys)
    IN  IF a > 0 THEN [album |-> KeyValue(block[a]), track |-> 0, step |-> 1]
        ELSE IF t > 0 /\ block[t] = "type_track" /\ i > 0
             THEN [album |-> 0, track |-> KeyValue(block[i]), step |-> 1]
             ELSE NoEmbed

fetch_bandcamp_embed_from_html(page) ==
    IF TralbumData(page.tralbum) # NoEmbed THEN TralbumData(page.tralbum)
    ELSE IF page.embeddata = "album" THEN [album |-> 21, track |-> 0, step |-> 2]
    ELSE IF page.embeddata = "track" THEN [album |-> 0, track |-> 22, step |-> 2]
    ELSE IF GenericSearch(page.generic) # NoEmbed THEN GenericSearch(page.generic)
    ELSE IF page.iframe = "album" THEN [album |-> 41, track |-> 0, step |-> 4]
    ELSE IF page.iframe = "track" THEN [album |-> 0, track |-> 42, step |-> 4]
    ELSE IF page.iframe = "both" THEN [album |-> 41, track |-> 42, step |-> 4]
    ELSE IF page.iframe = "plain" THEN [album |-> 0, track |-> 0, step |-> 4]
    ELSE NoEmbed

(* extract_bandcamp_id: <<>> is None *)
extract_bandcamp_id(embed_code) ==
    IF embed_code.step = 0 THEN <<>>
    ELSE IF embed_code.album > 0 THEN <<"album", embed_code.album>>
    ELSE IF embed_code.track > 0 THEN <<"track", embed_code.track>>
    ELSE <<>>

(* The pages the remote site answers with in the generator model *)
FetchedPages ==
    {[tralbum |-> <<"album_id">>, embeddata |-> "none",
      generic |-> <<"album_id", "track_url">>, iframe |-> "none"],
     [tralbum |-> <<"type_album">>, embeddata |-> "track",
      generic |-> <<"track_id">>, iframe |-> "none"],
     [tralbum |-> <<>>, embeddata |-> "none", generic |-> <<>>, iframe |-> "plain"],
     [tralbum |-> <<>>, embeddata |-> "none", generic |-> <<>>, iframe |-> "none"]}

(* Failures of urlopen: HTTPError 5xx, HTTPError 4xx other than 404,        *)
(* URLError, any other exception (a timeout)                                *)
RetryableErrors == {"h5xx", "h4xx", "urlerror", "exception"}

----------------------------------------------------------------------------
(* get_bandcamp_embed: one call, attempt = number of fetches made so far *)

NoUrl == <<>>

IdleResolver ==
    [url |-> NoUrl, attempt |-> 0, sleeps |-> 0, last |-> "none",
     ret |-> "none", embed |-> NoEmbed]

StartedResolver(url) ==
    [url |-> url, attempt |-> 0, sleeps |-> 0, last |-> "none",
     ret |-> "running", embed |-> NoEmbed]

(* except HTTPError: if e.code == 404: return None *)
IsTerminalNever(outcome) == FALSE

IsTerminalAnyClientError(outcome) == outcome \in {"h404", "h4xx"}

IsTerminal(outcome) == outcome = "h404"

(* One iteration of "for attempt in range(retry_count)" with the outcome of *)
(* urlopen: the delay before a retry, the fetch, the cascade, and the       *)
(* return after the last iteration.                                         *)
AttemptOneMore(r, outcome, embed) ==
    LET n == r.attempt + 1
        slept == IF r.attempt > 0 THEN r.sleeps + 1 ELSE r.sleeps
        base == [r EXCEPT !.attempt = n, !.sleeps = slept, !.last = outcome]
    IN  IF outcome = "page" /\ embed.step > 0
        THEN [base EXCEPT !.ret = "embed", !.embed = embed]
        ELSE IF IsTerminal(outcome)
             THEN [base EXCEPT !.ret = "failed"]
             ELSE IF n > RetryCount
                  THEN [base EXCEPT !.ret = "failed"]
                  ELSE base

AttemptStopsOnEmptyPage(r, outcome, embed) ==
    LET n == r.attempt + 1
        slept == IF r.attempt > 0 THEN r.sleeps + 1 ELSE r.sleeps
        base == [r EXCEPT !.attempt = n, !.sleeps = slept, !.last = outcome]
    IN  IF outcome = "page" /\ embed.step > 0
        THEN [base EXCEPT !.ret = "embed", !.embed = embed]
        ELSE IF IsTerminal(outcome) \/ outcome = "page"
             THEN [base EXCEPT !.ret = "failed"]
             ELSE IF n >= RetryCount
                  THEN [base EXCEPT !.ret = "failed"]
                  ELSE base

AttemptSleepsAfterFailure(r, outcome, embed) ==
    LET n == r.attempt + 1
        failed == ~(outcome = "page" /\ embed.step > 0) /\ ~IsTerminal(outcome)
        slept == IF failed THEN r.sleeps + 1 ELSE r.sleeps
        base == [r EXCEPT !.attempt = n, !.sleeps = slept, !.last = outcome]
    IN  IF outcome = "page" /\ embed.step > 0
        THEN [base EXCEPT !.ret = "embed", !.embed = embed]
        ELSE IF IsTerminal(outcome)
             THEN [base EXCEPT !.ret = "failed"]
             ELSE IF n >= RetryCount
                  THEN [base EXCEPT !.ret = "failed"]
                  ELSE base

Attempt(r, outcome, embed) ==
    LET n == r.attempt + 1
        slept == IF r.attempt > 0 THEN r.sleeps + 1 ELSE r.sleeps
        base == [r EXCEPT !.attempt = n, !.sleeps = slept, !.last = outcome]
    IN  IF outcome = "page" /\ embed.step > 0
        THEN [base EXCEPT !.ret = "embed", !.embed = embed]
        ELSE IF IsTerminal(outcome)
             THEN [base EXCEPT !.ret = "failed"]
             ELSE IF n >= RetryCount
                  THEN [base EXCEPT !.ret = "failed"]
                  ELSE base

----------------------------------------------------------------------------
(* process_feed / process_category (the two bodies are the same code) *)

(* n stands for the article's title, link, author and feed title; date is   *)
(* its 'published' as strftime formats it when an entry is built            *)
NoArticle == [n |-> 0, date |-> 0]

NoEmbeds == [bandcamp |-> <<>>, youtube |-> <<>>, soundcloud |-> <<>>]

NoProcessed == [bandcamp |-> {}, youtube |-> {}, soundcloud |-> {}]

(* if url in processed_bandcamp: continue *)
IsDuplicateNever(url, seen) == FALSE

IsDuplicate(url, seen) == url \in seen

(* processed_bandcamp.add(url) *)
MarkProcessedForgets(seen, url) == seen

MarkProcessed(seen, url) == seen \cup {url}

(* the dict appended to embeds['bandcamp']: title stands for the title,     *)
(* article_link, author and feed copied from the article                    *)
BandcampEntry(url, art, embed_code) ==
    [url |-> url, embed |-> embed_code, title |-> art.n,
     date |-> art.date, id |-> extract_bandcamp_id(embed_code)]

(* the dict appended to embeds['youtube'] and embeds['soundcloud'] *)
UrlEntry(url, art) ==
    [url |-> url, embed |-> NoEmbed, title |-> art.n,
     date |-> art.date, id |-> url]

(* history: the first article that mentions each URL *)
NoFirst == [n |-> 0, date |-> 0]

NoteFirst(f, art, text) ==
    LET urls == extract_bandcamp_url(text) \cup extract_youtube_url(text)
                \cup extract_soundcloud_url(text)
    IN  [u \in AllUrls |->
            IF u \in urls /\ f[u] = NoFirst
            THEN [n |-> art.n, date |-> art.date]
            ELSE f[u]]

GenInit ==
    /\ gpc = "loop"
    /\ article = NoArticle
    /\ bc_urls = {}
    /\ yt_urls = {}
    /\ sc_urls = {}
    /\ processed = NoProcessed
    /\ embeds = NoEmbeds
    /\ resolver = IdleResolver
    /\ first = [u \in AllUrls |-> NoFirst]
    /\ calls = [u \in BandcampUrls |-> 0]
    /\ omitted = {}
    /\ items_per_page = 0
    /\ all_embeds = <<>>
    /\ gen_pages = <<>>

LoopIdle ==
    /\ gpc = "loop"
    /\ bc_urls = {} /\ yt_urls = {} /\ sc_urls = {}
    /\ resolver.url = NoUrl

(* for i, article in enumerate(articles, 1): the next article is delivered *)
NextArticle ==
    /\ UNCHANGED offGen
    /\ LoopIdle
    /\ article.n < MaxArticles
    /\ \E text \in Texts, published \in Timestamps :
          LET art == [n |-> article.n + 1, date |-> FormatDate(published)]
          IN  /\ article' = art
              /\ bc_urls' = extract_bandcamp_url(text)
              /\ yt_urls' = extract_youtube_url(text)
              /\ sc_urls' = extract_soundcloud_url(text)
              /\ first' = NoteFirst(first, art, text)
    /\ UNCHANGED <<omitted, gpc, processed, embeds, resolver, calls, items_per_page,
                   all_embeds, gen_pages>>

BandcampDuplicate ==
    /\ UNCHANGED offGen
    /\ gpc = "loop" /\ resolver.url = NoUrl
    /\ \E url \in bc_urls :
          /\ IsDuplicate(url, processed.bandcamp)
          /\ bc_urls' = bc_urls \ {url}
          /\ omitted' = omitted \cup {url}
    /\ UNCHANGED <<gpc, article, yt_urls, sc_urls, processed, embeds, resolver,
                   first, calls, items_per_page, all_embeds, gen_pages>>

BandcampFound ==
    /\ UNCHANGED offGen
    /\ gpc = "loop" /\ resolver.url = NoUrl
    /\ \E url \in bc_urls :
          /\ ~IsDuplicate(url, processed.bandcamp)
          /\ bc_urls' = bc_urls \ {url}
          /\ processed' = [processed EXCEPT !.bandcamp = MarkProcessed(@, url)]
          /\ resolver' = StartedResolver(url)
          /\ calls' = [calls EXCEPT ![url] = @ + 1]
    /\ UNCHANGED <<omitted, gpc, article, yt_urls, sc_urls, embeds, first, items_per_page,
                   all_embeds, gen_pages>>

Running == gpc = "loop" /\ resolver.url # NoUrl /\ resolver.ret = "running"

ResolverFrame ==
    UNCHANGED <<gpc, article, bc_urls, yt_urls, sc_urls, processed, embeds, first,
                calls, omitted, items_per_page, all_embeds, gen_pages>>

(* urlopen returns the page, the cascade runs on it *)
FetchPage ==
    /\ UNCHANGED offGen
    /\ Running
    /\ \E pg \in FetchedPages :
          resolver' = Attempt(resolver, "page", fetch_bandcamp_embed_from_html(pg))
    /\ ResolverFrame

Fetch404 ==
    /\ UNCHANGED offGen
    /\ Running
    /\ resolver' = Attempt(resolver, "h404", NoEmbed)
    /\ ResolverFrame

FetchError ==
    /\ UNCHANGED offGen
    /\ Running
    /\ \E e \in RetryableErrors : resolver' = Attempt(resolver, e, NoEmbed)
    /\ ResolverFrame

(* embed_code = get_bandcamp_embed(url); if embed_code: embeds.append(...) *)
ResolveReturn ==
    /\ UNCHANGED offGen
    /\ gpc = "loop" /\ resolver.url # NoUrl /\ resolver.ret # "running"
    /\ embeds' = IF resolver.ret = "embed"
                 THEN [embeds EXCEPT !.bandcamp =
                          Append(@, BandcampEntry(resolver.url, article, resolver.embed))]
                 ELSE embeds
    /\ resolver' = IdleResolver
    /\ UNCHANGED <<omitted, gpc, article, bc_urls, yt_urls, sc_urls, processed, first, calls,
                   items_per_page, all_embeds, gen_pages>>

YouTubeUrl ==
    /\ UNCHANGED offGen
    /\ gpc = "loop" /\ resolver.url = NoUrl /\ bc_urls = {}
    /\ \E url \in yt_urls :
          /\ yt_urls' = yt_urls \ {url}
          /\ IF IsDuplicate(url, processed.youtube)
             THEN /\ omitted' = omitted \cup {url}
                  /\ UNCHANGED <<processed, embeds>>
             ELSE /\ processed' = [processed EXCEPT !.youtube = MarkProcessed(@, url)]
                  /\ embeds' = [embeds EXCEPT !.youtube = Append(@, UrlEntry(url, article))]
                  /\ UNCHANGED omitted
    /\ UNCHANGED <<gpc, article, bc_urls, sc_urls, resolver, first, calls,
                   items_per_page, all_embeds, gen_pages>>

SoundCloudUrl ==
    /\ UNCHANGED offGen
    /\ gpc = "loop" /\ resolver.url = NoUrl /\ bc_urls = {} /\ yt_urls = {}
    /\ \E url \in sc_urls :
          /\ sc_urls' = sc_urls \ {url}
          /\ IF IsDuplicate(url, processed.soundcloud)
             THEN /\ omitted' = omitted \cup {url}
                  /\ UNCHANGED <<processed, embeds>>
             ELSE /\ processed' = [processed EXCEPT !.soundcloud = MarkProcessed(@, url)]
                  /\ embeds' = [embeds EXCEPT !.soundcloud = Append(@, UrlEntry(url, article))]
                  /\ UNCHANGED omitted
    /\ UNCHANGED <<gpc, article, bc_urls, yt_urls, resolver, first, calls,
                   items_per_page, all_embeds, gen_pages>>

(* the for loop ends (or len(articles) == 0): return embeds *)
ReturnEmbeds ==
    /\ UNCHANGED offGen
    /\ LoopIdle
    /\ gpc' = "done"
    /\ article' = NoArticle
    /\ UNCHANGED <<omitted, bc_urls, yt_urls, sc_urls, processed, embeds, resolver,
                   first, calls, items_per_page, all_embeds, gen_pages>>

----------------------------------------------------------------------------
(* generate_feed_html *)

RECURSIVE WithType(_, _)
WithType(type, list) ==
    IF list = <<>> THEN <<>>
    ELSE << [type |-> type, url |-> list[1].url, embed_html |-> list[1].embed,
             title |-> list[1].title, date |-> list[1].date, id |-> list[1].id] >>
         \o WithType(type, Tail(list))

Combine(e) ==
    WithType("bandcamp", e.bandcamp) \o WithType("youtube", e.youtube)
    \o WithType("soundcloud", e.soundcloud)

(* list.sort(key=date, reverse=True): stable, equal dates keep their order *)
RECURSIVE InsertDesc(_, _)
InsertDescBeforeEqual(sorted, e) ==
    IF sorted = <<>> THEN <<e>>
    ELSE IF sorted[1].date > e.date
         THEN <<sorted[1]>> \o InsertDesc(Tail(sorted), e)
         ELSE <<e>> \o sorted

InsertDesc(sorted, e) ==
    IF sorted = <<>> THEN <<e>>
    ELSE IF sorted[1].date >= e.date
         THEN <<sorted[1]>> \o InsertDesc(Tail(sorted), e)
         ELSE <<e>> \o sorted

RECURSIVE SortDesc(_, _)
RECURSIVE SortDescFromLast(_, _)
SortDescFromLast(acc, rest) ==
    IF rest = <<>> THEN acc
    ELSE SortDescFromLast(InsertDesc(acc, rest[Len(rest)]), SubSeq(rest, 1, Len(rest) - 1))

SortDesc(acc, rest) ==
    IF rest = <<>> THEN acc
    ELSE SortDesc(InsertDesc(acc, rest[1]), Tail(rest))

(* total_pages = (n + P - 1) // P; pages_data[str(i + 1)] = all[i*P : i*P + P] *)
PaginateDropsRemainder(all, P) ==
    [k \in 1..(Len(all) \div P) |->
        [key |-> k, items |-> SubSeq(all, (k - 1) * P + 1, k * P)]]

Paginate(all, P) ==
    LET total_items == Len(all)
        total_pages == (total_items + P - 1) \div P
    IN  [k \in 1..total_pages |->
            LET i == k - 1
            IN  [key   |-> i + 1,
                 items |-> SubSeq(all, i * P + 1, Min(i * P + P, total_items))]]

GenerateFeedHtml ==
    /\ UNCHANGED offGen
    /\ gpc = "done"
    /\ \E P \in 1..MaxItemsPerPage :
          /\ items_per_page' = P
          /\ all_embeds' = SortDesc(<<>>, Combine(embeds))
          /\ gen_pages' = Paginate(all_embeds', P)
    /\ gpc' = "generated"
    /\ UNCHANGED <<omitted, article, bc_urls, yt_urls, sc_urls, processed, embeds, resolver,
                   first, calls>>

GenNext ==
    \/ NextArticle \/ BandcampDuplicate \/ BandcampFound
    \/ FetchPage \/ Fetch404 \/ FetchError \/ ResolveReturn
    \/ YouTubeUrl \/ SoundCloudUrl \/ ReturnEmbeds \/ GenerateFeedHtml

----------------------------------------------------------------------------
(* process_feed as a function of the articles, of the resolver's results     *)
(* and of the order in which each "for url in ..._urls" visits the list that *)
(* list(set(urls)) returned: that order is the iteration order of a set of   *)
(* strings, which differs between Python processes (hash randomisation).     *)

SetOrders == {"asc", "desc"}

(* the URLs of a set as the list the extractor returns *)
RECURSIVE AsList(_, _)
AsList(urls, order) ==
    IF urls = {} THEN <<>>
    ELSE LET u == CHOOSE x \in urls : \A y \in urls :
                     IF order = "asc" THEN x[2] <= y[2] ELSE x[2] >= y[2]
         IN  <<u>> \o AsList(urls \ {u}, order)

(* for url in bc_urls: ... embed_code = get_bandcamp_embed(url) ... *)
RECURSIVE VisitBandcamp(_, _, _, _)
VisitBandcamp(st, art, urls, resolve) ==
    IF urls = <<>> THEN st
    ELSE LET url == Head(urls)
             embed_code == resolve[url]
             marked == [st EXCEPT !.processed.bandcamp = MarkProcessed(@, url),
                                  !.calls[url] = @ + 1]
         IN  IF IsDuplicate(url, st.processed.bandcamp)
             THEN VisitBandcamp(st, art, Tail(urls), resolve)
             ELSE IF embed_code.step > 0
                  THEN VisitBandcamp(
                           [marked EXCEPT !.embeds.bandcamp =
                               Append(@, BandcampEntry(url, art, embed_code))],
                           art, Tail(urls), resolve)
                  ELSE VisitBandcamp(marked, art, Tail(urls), resolve)

(* for url in yt_urls / sc_urls *)
RECURSIVE VisitUrls(_, _, _, _)
VisitUrls(st, art, kind, urls) ==
    IF urls = <<>> THEN st
    ELSE LET url == Head(urls)
         IN  IF IsDuplicate(url, st.processed[kind])
             THEN VisitUrls(st, art, kind, Tail(urls))
             ELSE VisitUrls([st EXCEPT !.processed[kind] = MarkProcessed(@, url),
                                       !.embeds[kind] = Append(@, UrlEntry(url, art))],
                            art, kind, Tail(urls))

(* the body of "for i, article in enumerate(articles, 1)" *)
VisitArticle(st, art, text, order, resolve) ==
    LET b == VisitBandcamp(st, art, AsList(extract_bandcamp_url(text), order), resolve)
        y == VisitUrls(b, art, "youtube", AsList(extract_youtube_url(text), order))
    IN  VisitUrls(y, art, "soundcloud", AsList(extract_soundcloud_url(text), order))

RECURSIVE VisitArticles(_, _, _, _, _)
VisitArticles(st, articles, n, orders, resolve) ==
    IF n > Len(articles) THEN st
    ELSE VisitArticles(
             VisitArticle(st, [n |-> n, date |-> FormatDate(articles[n].published)],
                          articles[n].text, orders[n], resolve),
             articles, n + 1, orders, resolve)

NoCalls == [u \in BandcampUrls |-> 0]

(* processed_bandcamp = set(), processed_youtube = set(),                    *)
(* processed_soundcloud = set() at the top of process_feed and of            *)
(* process_category: left is what the previous call ended with               *)
NewProcessed(left) == NoProcessed

(* one call of process_feed with its locals at the return *)
ProcessFeedLocals(left, articles, orders, resolve) ==
    VisitArticles([processed |-> NewProcessed(left), embeds |-> NoEmbeds, calls |-> NoCalls],
                  articles, 1, orders, resolve)

process_feed(articles, orders, resolve) ==
    ProcessFeedLocals(NoProcessed, articles, orders, resolve).embeds

----------------------------------------------------------------------------
(* The extractors as lists: re.findall per pattern, set(), list().           *)

(* links of the extraction model: the three youtube shapes, two video ids *)
ExtTokenOrder ==
    TokenOrder \o <<(<<"yt_embed", 1>>), (<<"yt_watch", 2>>), (<<"yt_short", 2>>)>>

ExtTokens == {ExtTokenOrder[i] : i \in DOMAIN ExtTokenOrder}

ExtTokenRank(t) == CHOOSE i \in DOMAIN ExtTokenOrder : ExtTokenOrder[i] = t

ExtTexts ==
    {t \in UNION {[1..n -> ExtTokens] : n \in 0..MaxTokens} :
        \A j \in 1..(Len(t) - 1) : ExtTokenRank(t[j]) <= ExtTokenRank(t[j + 1])}

(* re.findall(pattern, text): the matches of one URL shape, in text order *)
FindAll(text, shape) ==
    LET Matches(t) == t[1] = shape
    IN  SelectSeq(text, Matches)

(* list(set(urls)): every distinct element once, in the set's order *)
ListOfSetKeepsAll(urls, order) == urls

ListOfSet(urls, order) == AsList({urls[i] : i \in DOMAIN urls}, order)

(* f"https://www.youtube.com/embed/{vid}" *)
CanonicalYouTube(match) == <<"yt", match[2]>>

bandcamp_list(text, order) == ListOfSet(FindAll(text, "bc"), order)

youtube_list(text, order) ==
    LET video_ids == FindAll(text, "yt_watch") \o FindAll(text, "yt_embed")
                     \o FindAll(text, "yt_short")
        ids == ListOfSet([i \in DOMAIN video_ids |-> <<"vid", video_ids[i][2]>>], order)
    IN  [i \in DOMAIN ids |-> CanonicalYouTube(ids[i])]

soundcloud_list(text, order) == ListOfSet(FindAll(text, "sc"), order)

ExtInit ==
    /\ epc = "texts"
    /\ ext_texts \in [1..2 -> ExtTexts]
    /\ ext_lists = <<>>
    /\ ext_youtube = <<>>

(* the extractor calls and the youtube loop of process_feed on two articles *)
ExtractTwoArticles ==
    /\ UNCHANGED offExt
    /\ epc = "texts"
    /\ \E orders \in [1..2 -> SetOrders] :
          /\ ext_lists' = [n \in 1..2 |->
                              [bandcamp   |-> bandcamp_list(ext_texts[n], orders[n]),
                               youtube    |-> youtube_list(ext_texts[n], orders[n]),
                               soundcloud |-> soundcloud_list(ext_texts[n], orders[n])]]
          /\ ext_youtube' =
                VisitUrls(
                    VisitUrls([processed |-> NoProcessed, embeds |-> NoEmbeds],
                              [n |-> 1, date |-> 0], "youtube", ext_lists'[1].youtube),
                    [n |-> 2, date |-> 0], "youtube", ext_lists'[2].youtube).embeds.youtube
    /\ epc' = "extracted"
    /\ UNCHANGED ext_texts

ExtIdle ==
    /\ epc = "idle"
    /\ ext_texts = <<>>
    /\ ext_lists = <<>>
    /\ ext_youtube = <<>>

----------------------------------------------------------------------------
(* main of the generator over the feeds and categories of the command line   *)

(* Bounds: feeds and categories on the command line, invocations *)
MaxSubs == 2
MaxInvocations == 2

Article(text, published) == [text |-> text, published |-> published]

(* what the server holds for one feed or category *)
ArticleLists ==
    {<<>>,
     <<Article(<<>>, 0)>>,
     <<Article(<<(<<"bc", 1>>), (<<"bc", 2>>)>>, 0)>>,
     <<Article(<<(<<"yt_watch", 1>>)>>, 60), Article(<<(<<"bc", 1>>), (<<"yt_short", 1>>)>>, 0)>>}

(* one feed or category: the request of get_articles succeeds or raises *)
Subscriptions ==
    [retrieval : {"ok"}, articles : ArticleLists]
    \cup {[retrieval |-> "fail", articles |-> <<Article(<<(<<"bc", 1>>), (<<"bc", 2>>)>>, 0)>>]}

(* get_articles: except ...: return [] *)
get_articles(sub) == IF sub.retrieval = "ok" THEN sub.articles ELSE <<>>

(* get_articles catches RequestException and then Exception around the      *)
(* request: no failure of it reaches process_feed or main                    *)
GetArticlesRaisesOnFailure(sub) == sub.retrieval = "fail"

GetArticlesRaises(sub) == FALSE

(* the characters of a feed title: word characters, punctuation, a blank *)
WordChars == {"a", "b"}

(* the titles of the feeds and the names of the categories of one server *)
FeedNames ==
    {<<"a">>, <<"a", "!">>, <<"a", " ", "b">>}

(* str.strip() *)
RECURSIVE StripLeft(_)
StripLeft(name) ==
    IF name # <<>> /\ Head(name) = " " THEN StripLeft(Tail(name)) ELSE name

RECURSIVE StripRight(_)
StripRight(name) ==
    IF name # <<>> /\ name[Len(name)] = " "
    THEN StripRight(SubSeq(name, 1, Len(name) - 1))
    ELSE name

(* re.sub(r'[^\w\s-]', '', feed_name).strip().replace(' ', '_') *)
sanitize_feed_name(feed_name) ==
    LET Kept(c) == c \in WordChars \cup {" ", "-"}
        stripped == StripRight(StripLeft(SelectSeq(feed_name, Kept)))
    IN  [i \in DOMAIN stripped |-> IF stripped[i] = " " THEN "_" ELSE stripped[i]]

(* len(embeds['bandcamp']) + len(embeds['youtube']) + len(embeds['soundcloud']) *)
Total(e) == Len(e.bandcamp) + Len(e.youtube) + Len(e.soundcloud)

MainInit ==
    /\ main_pc = "process"
    /\ arg_feeds \in [1..MaxSubs -> Subscriptions]
    /\ arg_names \in {names \in [1..MaxSubs -> FeedNames] :
                         \A i, j \in 1..MaxSubs : names[i] = names[j] => i = j}
    /\ resolutions \in [BandcampUrls -> {fetch_bandcamp_embed_from_html(pg) : pg \in FetchedPages}]
    /\ arg_items_per_page \in 1..MaxItemsPerPage
    /\ feed_idx = 1
    /\ all_results = <<>>
    /\ output_dir = <<>>
    /\ invocation = 1
    /\ prev_output_dir = <<>>
    /\ left_processed = NoProcessed
    /\ feed_calls = <<>>

(* embeds = process_feed(...); if total > 0: all_results.append(...) *)
MainProcessFeed ==
    /\ UNCHANGED offMain
    /\ main_pc = "process"
    /\ feed_idx <= Len(arg_feeds)
    /\ IF GetArticlesRaises(arg_feeds[feed_idx])
       THEN \* except Exception as e: traceback.print_exc() at the end of main
            /\ main_pc' = "done"
            /\ UNCHANGED <<feed_idx, all_results, left_processed, feed_calls>>
       ELSE /\ LET articles == get_articles(arg_feeds[feed_idx])
               IN  \E orders \in [1..Len(articles) -> SetOrders] :
                      LET st == ProcessFeedLocals(left_processed, articles, orders, resolutions)
                          e == st.embeds
                      IN  /\ all_results' =
                                IF Total(e) > 0
                                THEN Append(all_results, [name |-> arg_names[feed_idx],
                                                          feed |-> feed_idx, embeds |-> e])
                                ELSE all_results
                          /\ left_processed' = st.processed
                          /\ feed_calls' = Append(feed_calls, st.calls)
            /\ feed_idx' = feed_idx + 1
            /\ UNCHANGED main_pc
    /\ UNCHANGED <<arg_feeds, arg_names, resolutions, arg_items_per_page, output_dir,
                   invocation, prev_output_dir>>

(* the loops over args.feeds and args.categories end *)
MainProcessed ==
    /\ UNCHANGED offMain
    /\ main_pc = "process"
    /\ feed_idx > Len(arg_feeds)
    /\ main_pc' = "generate"
    /\ feed_idx' = 1
    /\ UNCHANGED <<arg_feeds, arg_names, resolutions, arg_items_per_page, all_results,
                   output_dir, invocation, prev_output_dir, left_processed, feed_calls>>

(* for name, embeds in all_results: generate_feed_html(name, embeds, ...) *)
MainGenerate ==
    /\ UNCHANGED offMain
    /\ main_pc = "generate"
    /\ feed_idx <= Len(all_results)
    /\ LET r == all_results[feed_idx]
           pages == Paginate(SortDesc(<<>>, Combine(r.embeds)), arg_items_per_page)
           main_filename == sanitize_feed_name(r.name)
       IN  output_dir' = [f \in DOMAIN output_dir \cup {main_filename} |->
                             IF f = main_filename
                             THEN [feed |-> r.feed, pages |-> pages]
                             ELSE output_dir[f]]
    /\ feed_idx' = feed_idx + 1
    /\ UNCHANGED <<main_pc, arg_feeds, arg_names, resolutions, arg_items_per_page, all_results,
                   invocation, prev_output_dir, left_processed, feed_calls>>

MainDone ==
    /\ UNCHANGED offMain
    /\ main_pc = "generate"
    /\ feed_idx > Len(all_results)
    /\ main_pc' = "done"
    /\ UNCHANGED <<arg_feeds, arg_names, resolutions, arg_items_per_page, feed_idx,
                   all_results, output_dir, invocation, prev_output_dir, left_processed, feed_calls>>

(* the generator is started again on the same feeds with the same results *)
MainAgain ==
    /\ UNCHANGED offMain
    /\ main_pc = "done"
    /\ invocation < MaxInvocations
    /\ invocation' = invocation + 1
    /\ prev_output_dir' = output_dir
    /\ all_results' = <<>>
    /\ left_processed' = NoProcessed
    /\ feed_calls' = <<>>
    /\ feed_idx' = 1
    /\ main_pc' = "process"
    /\ UNCHANGED <<arg_feeds, arg_names, resolutions, arg_items_per_page, output_dir>>

MainNext ==
    \/ MainProcessFeed \/ MainProcessed \/ MainGenerate \/ MainDone \/ MainAgain

MainIdle ==
    /\ main_pc = "idle"
    /\ arg_feeds = <<>>
    /\ arg_names = <<>>
    /\ resolutions = [u \in BandcampUrls |-> NoEmbed]
    /\ arg_items_per_page = 0
    /\ feed_idx = 0
    /\ all_results = <<>>
    /\ output_dir = <<>>
    /\ invocation = 0
    /\ prev_output_dir = <<>>
    /\ left_processed = NoProcessed
    /\ feed_calls = <<>>

----------------------------------------------------------------------------
(* The two programs *)

GenIdle ==
    /\ gpc = "idle"
    /\ article = NoArticle
    /\ bc_urls = {} /\ yt_urls = {} /\ sc_urls = {}
    /\ processed = NoProcessed
    /\ embeds = NoEmbeds
    /\ resolver = IdleResolver
    /\ first = [u \in AllUrls |-> NoFirst]
    /\ calls = [u \in BandcampUrls |-> 0]
    /\ omitted = {}
    /\ items_per_page = 0
    /\ all_embeds = <<>>
    /\ gen_pages = <<>>

SyncIdle ==
    /\ pc = "idle"
    /\ round = 0
    /\ pages_data = <<>>
    /\ listened_ids = {}
    /\ synced_pages = <<>>
    /\ stats = NoStats
    /\ prev_pages = <<>>
    /\ artifact = GeneratedArtifact(<<>>)

CascIdle ==
    /\ cpc = "idle"
    /\ html_content = [tralbum |-> <<>>, embeddata |-> "none", generic |-> <<>>,
                       iframe |-> "none"]
    /\ embed_html = NoEmbed

(* one call of fetch_bandcamp_embed_from_html on any page *)
CascInit ==
    /\ cpc = "page"
    /\ html_content \in Pages
    /\ embed_html = NoEmbed

FetchBandcampEmbedFromHtml ==
    /\ UNCHANGED offCasc
    /\ cpc = "page"
    /\ embed_html' = fetch_bandcamp_embed_from_html(html_content)
    /\ cpc' = "returned"
    /\ UNCHANGED html_content

RunIdle ==
    /\ rpc = "idle"
    /\ files = <<>>
    /\ feeds_info = <<>>
    /\ reported = {}
    /\ cur = 0
    /\ mem = NoMem
    /\ run_listened = {}
    /\ written = {}
    /\ args = NoArgs
    /\ out_dir = <<>>

----------------------------------------------------------------------------
(* Syncs of an artifact the generator wrote with --items-per-page P, each    *)
(* run of the sync script with the ListenedSet its browser export holds      *)

(* the entries of the artifact in the order generate_feed_html paged them *)
PagedEntries ==
    UNION {{[j \in 1..n |-> [id |-> ids[j], uid |-> j]] : ids \in [1..n -> 0..MaxId]}
           : n \in 1..MaxEntries}

PagInit ==
    /\ pc = "scanned"
    /\ round = 1
    /\ items_per_page \in 1..MaxItemsPerPage
    /\ \E all \in PagedEntries : pages_data = Paginate(all, items_per_page)
    /\ listened_ids \in SUBSET (0..MaxId)
    /\ synced_pages = <<>>
    /\ stats = NoStats
    /\ prev_pages = <<>>
    /\ artifact = GeneratedArtifact(pages_data)

(* the next run: load_listened_from_browser, scan_feed_htmls *)
ScanWithListened ==
    /\ UNCHANGED offSync
    /\ pc = "written"
    /\ round < MaxRounds
    /\ Scannable(artifact)
    /\ pages_data' = artifact.data
    /\ listened_ids' \in SUBSET (0..MaxId)
    /\ round' = round + 1
    /\ pc' = "scanned"
    /\ UNCHANGED <<synced_pages, stats, prev_pages, artifact>>

PagIdle ==
    /\ gpc = "idle"
    /\ article = NoArticle
    /\ bc_urls = {} /\ yt_urls = {} /\ sc_urls = {}
    /\ processed = NoProcessed
    /\ embeds = NoEmbeds
    /\ resolver = IdleResolver
    /\ first = [u \in AllUrls |-> NoFirst]
    /\ calls = [u \in BandcampUrls |-> 0]
    /\ omitted = {}
    /\ all_embeds = <<>>
    /\ gen_pages = <<>>

(* the sync script run again and again on one generated artifact *)
PagSpecInit == PagInit /\ PagIdle /\ CascIdle /\ RunIdle /\ MainIdle /\ ExtIdle
PagSpecNext == SyncFeed \/ RegenerateHtml \/ ScanWithListened \/ ScanSkipsFeed
PagSpec == PagSpecInit /\ [][PagSpecNext]_vars

(* the sync script *)
Init == SyncInit /\ GenIdle /\ CascIdle /\ RunIdle /\ MainIdle /\ ExtIdle
Next == SyncNext
Spec == Init /\ [][Next]_vars

(* the generator *)
GenSpecInit == GenInit /\ SyncIdle /\ CascIdle /\ RunIdle /\ MainIdle /\ ExtIdle
GenSpecNext == GenNext
GenSpec == GenSpecInit /\ [][GenSpecNext]_vars

(* the cascade on its own *)
CascSpecInit == CascInit /\ SyncIdle /\ GenIdle /\ RunIdle /\ MainIdle /\ ExtIdle
CascSpecNext == FetchBandcampEmbedFromHtml
CascSpec == CascSpecInit /\ [][CascSpecNext]_vars

(* one run of the sync script over several feeds *)
RunSpecInit == RunInit /\ SyncIdle /\ GenIdle /\ CascIdle /\ MainIdle /\ ExtIdle
RunSpecNext == RunNext
RunSpec == RunSpecInit /\ [][RunSpecNext]_vars

(* main of the generator *)
MainSpecInit == MainInit /\ SyncIdle /\ GenIdle /\ CascIdle /\ RunIdle /\ ExtIdle
MainSpecNext == MainNext
MainSpec == MainSpecInit /\ [][MainSpecNext]_vars

(* one run of the sync script with any command line *)
ArgsSpecInit == ArgsInit /\ SyncIdle /\ GenIdle /\ CascIdle /\ MainIdle /\ ExtIdle
ArgsSpecNext == RunNext
ArgsSpec == ArgsSpecInit /\ [][ArgsSpecNext]_vars

(* sync_feed as a function of any PageMap and ListenedSet *)
FeedSpecInit == FeedInit /\ GenIdle /\ CascIdle /\ RunIdle /\ MainIdle /\ ExtIdle
FeedSpecNext == SyncFeed
FeedSpec == FeedSpecInit /\ [][FeedSpecNext]_vars

(* the extractors on the texts of two articles *)
ExtSpecInit == ExtInit /\ SyncIdle /\ GenIdle /\ CascIdle /\ RunIdle /\ MainIdle
ExtSpecNext == ExtractTwoArticles
ExtSpec == ExtSpecInit /\ [][ExtSpecNext]_vars

----------------------------------------------------------------------------
(* Properties *)

RECURSIVE Flatten(_)
Flatten(pages) ==
    IF pages = <<>> THEN <<>>
    ELSE pages[1].items \o Flatten(Tail(pages))

(* sync_feed has returned for the PageMap still held in pages_data *)
Synced == pc \in {"synced", "written"}

HasNoId(e) == e.id = 0

(* C1: the counters returned by sync_feed satisfy kept + removed = original, *)
(* and original is the number of entries over all pages of the input.        *)
C1_Conservation ==
    Synced =>
        /\ stats.kept + stats.removed = stats.original
        /\ stats.original = Len(Flatten(pages_data))

C1_Witness ==
    /\ pc = "synced"
    /\ stats.removed > 0
    /\ stats.kept > 0
    /\ \E k \in DOMAIN pages_data : \E j \in DOMAIN pages_data[k].items :
          HasNoId(pages_data[k].items[j])

(* C2: the PageMap returned by sync_feed has keys 1..N in order, no empty    *)
(* page, every page but the last holds exactly the chunk size and the last   *)
(* at most that; Scenario A (13 entries at P = 8, page 1 listened) returns   *)
(* the single page 1 with the 5 entries of the old page 2.                   *)
C2_Contiguous ==
    Synced =>
        LET N == Len(synced_pages)
            P == ItemsPerPage(pages_data)
        IN  /\ \A k \in 1..N :
                  /\ synced_pages[k].key = k
                  /\ Len(synced_pages[k].items) >= 1
                  /\ Len(synced_pages[k].items) <= P
                  /\ k < N => Len(synced_pages[k].items) = P
            /\ (pages_data = ScenarioAPages /\ listened_ids = ScenarioAListened)
                  => synced_pages = << [key |-> 1, items |-> ScenarioAPages[2].items] >>

C2_Witness ==
    /\ pc = "synced"
    /\ pages_data = ScenarioAPages
    /\ listened_ids = ScenarioAListened
    /\ stats.removed = 8
    /\ Len(synced_pages) = 1
    /\ Len(synced_pages[1].items) = 5

(* C3: generate_feed_html pages n entries at page size P >= 1 into keys      *)
(* 1..ceil(n/P); every page but the last holds P entries, the last 1..P,     *)
(* and no entry gives no page.                                               *)
C3_Pagination ==
    gpc = "generated" =>
        LET n == Len(all_embeds)
            P == items_per_page
            N == Len(gen_pages)
        IN  /\ P >= 1
            /\ (N - 1) * P < n \/ (N = 0 /\ n = 0)
            /\ n <= N * P
            /\ \A k \in 1..N :
                  /\ gen_pages[k].key = k
                  /\ k < N => Len(gen_pages[k].items) = P
                  /\ k = N => Len(gen_pages[k].items) \in 1..P
            /\ n = 0 => gen_pages = <<>>

C3_Witness ==
    /\ gpc = "generated"
    /\ items_per_page = 2
    /\ Len(gen_pages) = 2
    /\ Len(gen_pages[1].items) = 2
    /\ Len(gen_pages[2].items) = 1

(* C4: when the retained list is empty, the PageMap the sync run writes is   *)
(* the single page 1 holding an empty list, never an empty map.              *)
C4_EmptyShell ==
    (pc = "written" /\ stats.kept = 0) => artifact.data = EmptyShell

(* C5: an entry without id is always retained and counted as kept, whatever  *)
(* the ListenedSet contains; next to it only the entries whose id is in the  *)
(* ListenedSet are removed.                                                  *)
C5_NoIdRetained ==
    Synced =>
        LET in  == Flatten(pages_data)
            out == Flatten(synced_pages)
            Matched(e) == ~HasNoId(e) /\ e.id \in listened_ids
        IN  /\ SelectSeq(out, HasNoId) = SelectSeq(in, HasNoId)
            /\ stats.kept >= Len(SelectSeq(in, HasNoId))
            /\ stats.removed = Len(SelectSeq(in, Matched))
            /\ \A j \in DOMAIN out : ~Matched(out[j])

C5_Witness ==
    /\ pc = "synced"
    /\ 0 \in listened_ids
    /\ stats.removed = 1
    /\ \E j \in DOMAIN Flatten(synced_pages) : HasNoId(Flatten(synced_pages)[j])

(* C6: syncing the result of a sync again with the same ListenedSet removes  *)
(* nothing and returns the same entries in the same order on the same pages. *)
C6_Idempotent ==
    (Synced /\ round >= 2) =>
        /\ stats.removed = 0
        /\ synced_pages = prev_pages

C6_Witness ==
    /\ pc = "synced"
    /\ round = 2
    /\ listened_ids = ScenarioAListened
    /\ Len(synced_pages) = 1
    /\ Len(synced_pages[1].items) = 5
    /\ synced_pages[1].items[1].uid = 9

(* the entries retained so far, of every kind *)
Retained == {embeds.bandcamp[k] : k \in DOMAIN embeds.bandcamp}
            \cup {embeds.youtube[k] : k \in DOMAIN embeds.youtube}
            \cup {embeds.soundcloud[k] : k \in DOMAIN embeds.soundcloud}

DistinctUrls(list) ==
    \A j, k \in DOMAIN list : list[j].url = list[k].url => j = k

(* C7: no two retained entries of the same kind have the same url, in the    *)
(* lists process_feed builds and on the pages generated from them.           *)
C7_Dedup ==
    /\ DistinctUrls(embeds.bandcamp)
    /\ DistinctUrls(embeds.youtube)
    /\ DistinctUrls(embeds.soundcloud)
    /\ \A j, k \in DOMAIN all_embeds :
          (all_embeds[j].type = all_embeds[k].type /\ all_embeds[j].url = all_embeds[k].url)
             => j = k

C7_Witness ==
    /\ gpc = "generated"
    /\ \E b \in DOMAIN embeds.bandcamp : embeds.bandcamp[b].url \in omitted
    /\ \E y \in DOMAIN embeds.youtube : embeds.youtube[y].url \in omitted

(* C8: get_bandcamp_embed is called at most once per URL, also when the      *)
(* first resolution failed, and every retained entry carries the title and   *)
(* date of the first article that mentions its URL.                          *)
C8_FirstWins ==
    /\ \A u \in BandcampUrls : calls[u] <= 1
    /\ \A e \in Retained : e.title = first[e.url].n /\ e.date = first[e.url].date

C8_Witness ==
    /\ gpc = "done"
    /\ \E u \in BandcampUrls \cap omitted :
          /\ calls[u] = 1
          /\ \A k \in DOMAIN embeds.bandcamp : embeds.bandcamp[k].url # u
    /\ \E y \in DOMAIN embeds.youtube :
          /\ embeds.youtube[y].url \in omitted
          /\ embeds.youtube[y].title = 1

IsBandcampId(id) == Len(id) = 2 /\ id[1] \in {"album", "track"} /\ id[2] > 0

(* C9: every bandcamp entry on the generated pages has the id album_<digits> *)
(* or track_<digits>, never None; every youtube or soundcloud entry has its  *)
(* url as id.                                                                *)
C9_ResolvedId ==
    \A k \in DOMAIN all_embeds :
        IF all_embeds[k].type = "bandcamp"
        THEN IsBandcampId(all_embeds[k].id)
        ELSE all_embeds[k].id = all_embeds[k].url

(* C10: an HTTP 404 ends the call of get_bandcamp_embed with failure at      *)
(* once: no fetch and no delay follows it.                                   *)
C10_404Terminal ==
    [][resolver.last = "h404" =>
          /\ resolver.ret = "failed"
          /\ resolver' = resolver \/ resolver' = IdleResolver]_vars

C10_Witness ==
    /\ resolver.last = "h404"
    /\ resolver.attempt = 2
    /\ resolver.sleeps = 1
    /\ resolver.ret = "failed"

(* C11: get_bandcamp_embed makes at most retry_count fetches, each step of   *)
(* a running call is one more fetch, and after the last one the call has     *)
(* returned; a failed call adds no entry and process_feed goes on in its     *)
(* loop with the URLs and the article it had.                                *)
C11_RetryBound ==
    [][/\ resolver'.attempt <= RetryCount
       /\ (resolver'.attempt = RetryCount => resolver'.ret # "running")
       /\ (resolver.ret = "running" /\ resolver' # resolver)
             => resolver'.attempt = resolver.attempt + 1
       /\ (resolver.ret = "failed" /\ resolver' # resolver)
             => /\ resolver' = IdleResolver
                /\ embeds' = embeds
                /\ gpc' = "loop"
                /\ <<article, bc_urls, yt_urls, sc_urls>>' = <<article, bc_urls, yt_urls, sc_urls>>]_vars

C11_Witness ==
    /\ resolver.ret = "failed"
    /\ resolver.attempt = RetryCount
    /\ resolver.last \in RetryableErrors
    /\ article.n = 1
    /\ yt_urls # {}

(* the last fetch returned a page in which the cascade found nothing *)
CascadeFailed == resolver.last = "page" /\ resolver.ret # "embed"

(* C12 as stated: a fetch that returned a page in which the cascade found    *)
(* no identifier is not followed by another fetch: the call has ended.       *)
C12_NoRetryOnCascadeFail ==
    CascadeFailed => resolver.ret = "failed"

(* C12 amended: after a fetch the call goes on exactly when fewer than       *)
(* retry_count fetches were made and the fetch either failed with a          *)
(* retryable transport error or returned a page without identifier; the      *)
(* step that follows is then one more fetch after one more delay.            *)
C12_CascadeFailRetried ==
    [][/\ resolver'.attempt > 0 =>
            (resolver'.ret = "running" <=>
                /\ resolver'.attempt < RetryCount
                /\ \/ resolver'.last \in RetryableErrors
                   \/ resolver'.last = "page" /\ resolver'.embed = NoEmbed)
       /\ (CascadeFailed /\ resolver.ret = "running" /\ resolver' # resolver)
             => /\ resolver'.attempt = resolver.attempt + 1
                /\ resolver'.sleeps = resolver.sleeps + 1]_vars

C12_Witness ==
    /\ CascadeFailed
    /\ resolver.ret = "running"
    /\ resolver.attempt = 2
    /\ resolver.sleeps = 1

(* the identifier the TralbumData block carries: its album_id, or for a     *)
(* track (item_type: "track") the digits of its id field                     *)
PrimaryId(block) ==
    IF FirstField(block, {"album_id"}) > 0 THEN <<"album", KeyValue("album_id")>>
    ELSE IF /\ FirstField(block, {"type_track", "type_album"}) > 0
            /\ block[FirstField(block, {"type_track", "type_album"})] = "type_track"
            /\ FirstField(block, {"id"}) > 0
         THEN <<"track", KeyValue("id")>>
         ELSE <<>>

HasLaterMatch(page) ==
    page.embeddata # "none" \/ page.generic # <<>> \/ page.iframe # "none"

(* C13: on a page whose TralbumData block carries an identifier and which    *)
(* also has a match of a later step, the identifier returned is the one of   *)
(* the TralbumData block; and the embed returned is never that of a step     *)
(* after one that matches.                                                   *)
C13_CascadePrecedence ==
    cpc = "returned" =>
        /\ (PrimaryId(html_content.tralbum) # <<>> /\ HasLaterMatch(html_content))
              => extract_bandcamp_id(embed_html) = PrimaryId(html_content.tralbum)
        /\ html_content.embeddata # "none" => embed_html.step \in {1, 2}
        /\ html_content.generic # <<>> => embed_html.step \in {1, 2, 3}
        /\ html_content.iframe # "none" => embed_html.step \in {1, 2, 3, 4}

(* C14 as stated: the paginated sequence is in descending date order and    *)
(* entries with equal dates are in the order of their articles, whatever     *)
(* their kinds.                                                              *)
C14_OrderedByDate ==
    \A j, k \in DOMAIN all_embeds :
        j < k => /\ all_embeds[j].date >= all_embeds[k].date
                 /\ all_embeds[j].date = all_embeds[k].date
                       => all_embeds[j].title <= all_embeds[k].title

KindRank(type) ==
    CASE type = "bandcamp" -> 1 [] type = "youtube" -> 2 [] type = "soundcloud" -> 3

(* position of an entry in the list process_feed appended it to *)
AppendedAt(e) == CHOOSE i \in DOMAIN embeds[e.type] : embeds[e.type][i].url = e.url

(* C14 amended: the paginated sequence is in descending order of the         *)
(* formatted date; entries with equal dates come bandcamp first, then        *)
(* youtube, then soundcloud, and within one kind in the order in which       *)
(* process_feed appended them.                                               *)
C14_OrderedByDateThenKind ==
    gpc = "generated" =>
        \A j, k \in DOMAIN all_embeds :
            j < k => /\ all_embeds[j].date >= all_embeds[k].date
                     /\ all_embeds[j].date = all_embeds[k].date
                           => \/ KindRank(all_embeds[j].type) < KindRank(all_embeds[k].type)
                              \/ /\ all_embeds[j].type = all_embeds[k].type
                                 /\ AppendedAt(all_embeds[j]) < AppendedAt(all_embeds[k])

C14_Witness ==
    /\ gpc = "generated"
    /\ \E j, k \in DOMAIN all_embeds :
          /\ j < k
          /\ all_embeds[j].date = all_embeds[k].date
          /\ all_embeds[j].type = "bandcamp" /\ all_embeds[j].title = 2
          /\ all_embeds[k].type = "youtube" /\ all_embeds[k].title = 1

(* C15: from its call to its return or to the exception that ends it,       *)
(* sync_feed leaves the PageMap of its feed_info as it was: same keys, same  *)
(* entry lists in the same order, same entries.                              *)
C15_InputNotMutated ==
    [][rpc = "sync" => feeds_info'[cur].pages_data = feeds_info[cur].pages_data]_vars

C15_Witness ==
    /\ rpc = "aborted"
    /\ cur = 2
    /\ mem.removed = 1
    /\ mem.original = 2
    /\ feeds_info[cur].pages_data = files[feeds_info[cur].feed].html.data

(* the persisted PageMap of a file parses and has lists of objects as pages *)
WellFormed(file) ==
    /\ file.parses
    /\ file.sized
    /\ \A k \in DOMAIN file.html.data : \A j \in DOMAIN file.html.data[k].items :
          IsObject(file.html.data[k].items[j])

(* scan_feed_htmls printed a message about the feed, or the traceback that  *)
(* ends the run comes from its sync_feed                                     *)
Reported(f) ==
    \/ f \in reported
    \/ rpc = "aborted" /\ feeds_info[cur].feed = f

(* C16: when the run has ended, every feed whose persisted PageMap is        *)
(* malformed was skipped and reported and has not been written, and every    *)
(* other feed has been synced and written.                                   *)
C16_MalformedFeedSkipped ==
    rpc \in {"done", "aborted"} =>
        \A f \in DOMAIN files :
            IF WellFormed(files[f])
            THEN f \in written
            ELSE Reported(f) /\ f \notin written

(* the articles of a feed mention a link that becomes an entry: a youtube   *)
(* or soundcloud link, or a bandcamp link that resolves                      *)
HasMedia(sub) ==
    \E n \in DOMAIN sub.articles :
        \/ extract_youtube_url(sub.articles[n].text) # {}
        \/ extract_soundcloud_url(sub.articles[n].text) # {}
        \/ \E u \in extract_bandcamp_url(sub.articles[n].text) : resolutions[u].step > 0

RetrievalFailed == {f \in DOMAIN arg_feeds : arg_feeds[f].retrieval = "fail"}

(* the file generate_feed_html names after feed f *)
FileOf(f) == sanitize_feed_name(arg_names[f])

(* some file of the output directory was last written from feed f *)
WrittenFrom(f) == \E name \in DOMAIN output_dir : output_dir[name].feed = f

(* C17 as stated: when retrieval fails for one feed of a run, that feed      *)
(* yields nothing and every other feed of the run has its artifact.          *)
C17_RetrievalFailureIsolated ==
    (main_pc = "done" /\ RetrievalFailed # {}) =>
        \A f \in DOMAIN arg_feeds :
            IF f \in RetrievalFailed
            THEN ~WrittenFrom(f)
            ELSE FileOf(f) \in DOMAIN output_dir

(* C17 amended: when retrieval fails for one feed of a run, that feed yields *)
(* nothing, and every other feed whose articles hold at least one entry has  *)
(* its artifact with entries; a feed without entries has none, as in any run.*)
C17_FailureIsolatedWhenMedia ==
    (main_pc = "done" /\ RetrievalFailed # {}) =>
        \A f \in DOMAIN arg_feeds :
            IF f \notin RetrievalFailed /\ HasMedia(arg_feeds[f])
            THEN /\ FileOf(f) \in DOMAIN output_dir
                 /\ Len(Flatten(output_dir[FileOf(f)].pages)) > 0
            ELSE ~WrittenFrom(f)

C17_Witness ==
    /\ main_pc = "done"
    /\ invocation = 1
    /\ arg_feeds[1].retrieval = "fail"
    /\ DOMAIN output_dir = {FileOf(2)}
    /\ output_dir[FileOf(2)].feed = 2
    /\ Len(Flatten(output_dir[FileOf(2)].pages)) = 2

(* C18: a second run of the generator on the same articles with the same    *)
(* resolver results writes the same entries in the same order on the same    *)
(* pages of every file as the first run.                                     *)
C18_Deterministic ==
    (main_pc = "done" /\ invocation = 2) => output_dir = prev_output_dir

(* the video ids an article's text mentions, in any of the three shapes *)
MentionedIds(text) ==
    {text[k][2] : k \in {j \in DOMAIN text : text[j][1] \in YouTubeShapes}}

NoRepeats(list) ==
    \A i, j \in DOMAIN list : list[i] = list[j] => i = j

(* C19: each extractor returns every distinct match exactly once, and the
   three youtube shapes of one video id give the one canonical embed URL of
   that id, so that a video mentioned in several shapes, in one article or in
   two, is one candidate per article and one youtube entry of the feed. *)
C19_ExtractorsDeduplicate ==
    epc = "extracted" =>
        /\ \A n \in 1..2 :
              LET text == ext_texts[n]
                  got  == ext_lists[n]
              IN  /\ NoRepeats(got.bandcamp)
                  /\ NoRepeats(got.youtube)
                  /\ NoRepeats(got.soundcloud)
                  /\ {got.bandcamp[i] : i \in DOMAIN got.bandcamp}
                        = {t \in ExtTokens : t[1] = "bc" /\ \E k \in DOMAIN text : text[k] = t}
                  /\ {got.soundcloud[i] : i \in DOMAIN got.soundcloud}
                        = {t \in ExtTokens : t[1] = "sc" /\ \E k \in DOMAIN text : text[k] = t}
                  /\ {got.youtube[i] : i \in DOMAIN got.youtube}
                        = {<<"yt", id>> : id \in MentionedIds(text)}
        /\ \A id \in MentionedIds(ext_texts[1]) \cup MentionedIds(ext_texts[2]) :
              Cardinality({i \in DOMAIN ext_youtube : ext_youtube[i].id = <<"yt", id>>}) = 1
        /\ Len(ext_youtube)
              = Cardinality(MentionedIds(ext_texts[1]) \cup MentionedIds(ext_texts[2]))

(* one article names a video in two shapes, the other names the same video
   twice in the third shape; the feed holds the video once *)
C19_Witness ==
    /\ epc = "extracted"
    /\ ext_texts[1] = <<(<<"yt_watch", 1>>), (<<"yt_short", 1>>)>>
    /\ ext_texts[2] = <<(<<"yt_embed", 1>>), (<<"yt_embed", 1>>)>>
    /\ ext_lists[1].youtube = <<(<<"yt", 1>>)>>
    /\ ext_lists[2].youtube = <<(<<"yt", 1>>)>>
    /\ Len(ext_youtube) = 1

(* C20: after regenerate_html has written the artifact of a sync, the
   totalPages constant of the file is the number of pages of its allPagesData
   and is at least 1, and the header total is the number of entries of its
   allPagesData, whatever PageMap was synced, the empty one included. *)
C20_ArtifactConsistent ==
    pc = "written" =>
        /\ artifact.tp = Len(artifact.data)
        /\ artifact.tp >= 1
        /\ artifact.hdr.total = SumLens(artifact.data)

(* C21: in one run of the generator every feed or category with at least one
   entry has its own artifact holding its own entries: no two feed names of
   the run are written to the same file, none overwrites another's. *)
C21_OwnArtifactPerFeed ==
    main_pc = "done" =>
        /\ \A f, g \in DOMAIN arg_feeds :
              (WrittenFrom(f) /\ WrittenFrom(g) /\ f # g) => FileOf(f) # FileOf(g)
        /\ \A k \in DOMAIN all_results :
              /\ FileOf(all_results[k].feed) \in DOMAIN output_dir
              /\ output_dir[FileOf(all_results[k].feed)].feed = all_results[k].feed

(* C22: the pages returned by sync_feed, concatenated in page order, are the
   input flattened in page order then within-page order without exactly the
   entries whose non-empty id is in the ListenedSet: all of those are removed,
   duplicates of an id included, every other entry is kept unchanged in its
   original relative order, and the number of output entries is kept. *)
C22_FilteredFlattening ==
    Synced =>
        LET Stays(e) == HasNoId(e) \/ e.id \notin listened_ids
        IN  /\ Flatten(synced_pages) = SelectSeq(Flatten(pages_data), Stays)
            /\ Len(Flatten(synced_pages)) = stats.kept

(* two pages, an id of the ListenedSet on both of them, an entry kept between *)
C22_Witness ==
    /\ pc = "synced"
    /\ Len(pages_data) = 2
    /\ LET in == Flatten(pages_data)
       IN  /\ Len(in) = 3
           /\ Len(pages_data[1].items) = 2
           /\ in[1].id = in[3].id
           /\ in[1].id \in listened_ids /\ ~HasNoId(in[1])
           /\ in[2].id \notin listened_ids
           /\ Flatten(synced_pages) = <<in[2]>>
    /\ stats.kept = 1
    /\ stats.removed = 2

(* every page but the last holds P entries and the last at most P *)
ChunkedBy(pages, P) ==
    \A k \in DOMAIN pages :
        /\ Len(pages[k].items) <= P
        /\ k < Len(pages) => Len(pages[k].items) = P

(* the page of the input whose key is the number 1 *)
PageNumberedOne(pages) == pages[CHOOSE k \in DOMAIN pages : pages[k].key = 1]

(* C23 as stated: the chunk size sync_feed recompacts with is the number of
   entries of the input page numbered 1, whatever the stored order of the
   page keys, and is the default 8 only when the input PageMap is empty. *)
C23_ChunkSizeOfPageOne ==
    Synced =>
        ChunkedBy(synced_pages,
                  IF pages_data = <<>> THEN DefaultItemsPerPage
                  ELSE Len(PageNumberedOne(pages_data).items))

(* C23 amended: the chunk size sync_feed recompacts with is the number of
   entries of the first stored page of the input, and is the default 8 when
   the input PageMap is empty or that page holds no entry. *)
C23_ChunkSizeOfFirstStoredPage ==
    Synced =>
        ChunkedBy(synced_pages,
                  IF pages_data = <<>> \/ Len(pages_data[1].items) = 0
                  THEN DefaultItemsPerPage
                  ELSE Len(pages_data[1].items))

(* page 2 is stored first with one entry, page 1 holds two; three pages of
   one entry are returned *)
C23_Witness ==
    /\ pc = "synced"
    /\ Len(pages_data) = 2
    /\ pages_data[1].key = 2
    /\ Len(pages_data[1].items) = 1
    /\ Len(pages_data[2].items) = 2
    /\ Len(synced_pages) = 3

(* a server error (HTTP status >= 500) or a connection-level error *)
ServerOrConnectionError == {"h5xx", "urlerror"}

(* C24: in get_bandcamp_embed a server or connection error consumes exactly
   one attempt and, while budget remains, is followed by the fixed delay and
   then a new fetch; there is a delay before every attempt except the first
   and none after the last; the first attempt whose cascade succeeds ends the
   call with success, and no fetch follows it. *)
C24_RetryWithDelay ==
    [][/\ resolver'.attempt >= 1 => resolver'.sleeps = resolver'.attempt - 1
       /\ (resolver'.last \in ServerOrConnectionError /\ resolver' # resolver)
             => /\ resolver'.attempt = resolver.attempt + 1
                /\ resolver'.ret = IF resolver'.attempt < RetryCount
                                   THEN "running" ELSE "failed"
       /\ (resolver.last \in ServerOrConnectionError /\ resolver.ret = "running"
              /\ resolver' # resolver)
             => /\ resolver'.attempt = resolver.attempt + 1
                /\ resolver'.sleeps = resolver.sleeps + 1
       /\ (resolver'.last = "page" /\ resolver'.embed # NoEmbed)
             => resolver'.ret = "embed"
       /\ (resolver.ret = "embed" /\ resolver' # resolver)
             => resolver' = IdleResolver]_vars

(* a failed first fetch, one delay, then a fetch whose cascade succeeds *)
C24_Witness ==
    /\ resolver.ret = "embed"
    /\ resolver.last = "page"
    /\ resolver.attempt = 2
    /\ resolver.sleeps = 1
    /\ resolver.embed.step > 0

(* C27: in get_bandcamp_embed a 404 is the only failure that ends the call
   before the budget is used: an HTTP error below 500 other than 404, a
   timeout or any other exception consumes one attempt and is retried as a
   server error is. *)
C27_Only404Stops ==
    [][/\ (resolver'.ret = "failed" /\ resolver'.attempt < RetryCount)
             => resolver'.last = "h404"
       /\ (resolver'.last \in {"h4xx", "exception"} /\ resolver' # resolver)
             => /\ resolver'.attempt = resolver.attempt + 1
                /\ resolver'.ret = IF resolver'.attempt < RetryCount
                                   THEN "running" ELSE "failed"
       /\ (resolver.last \in {"h4xx", "exception"} /\ resolver.ret = "running"
              /\ resolver' # resolver)
             => /\ resolver'.attempt = resolver.attempt + 1
                /\ resolver'.sleeps = resolver.sleeps + 1
                /\ resolver'.url = resolver.url]_vars

(* an HTTP 403 on the first fetch, the call is still running *)
C27_Witness ==
    /\ resolver.last = "h4xx"
    /\ resolver.attempt = 1
    /\ resolver.ret = "running"

(* C25 as stated: a sync run with --stats-only writes no artifact, and a run
   with --output-dir writes only under that directory; in both cases every
   original feed artifact is left unchanged. *)
C25_OriginalsUnchanged ==
    [][/\ args.stats_only => (files' = files /\ out_dir' = out_dir)
       /\ args.output_dir # "none" => files' = files]_vars

(* C25 amended: a sync run with --stats-only writes no artifact, and a run
   with --output-dir writes only under that directory; every original feed
   artifact is left unchanged with --stats-only, and with --output-dir when
   it names a directory other than the feed directory. *)
C25_OriginalsUnchangedElsewhere ==
    [][/\ args.stats_only => (files' = files /\ out_dir' = out_dir)
       /\ args.output_dir = "other" => files' = files
       /\ (args.output_dir = "feed_dir" /\ files' # files) => out_dir' = out_dir
       /\ (args.output_dir = "none" \/ args.stats_only) => out_dir' = <<>>]_vars

(* a run with --output-dir has written a synced artifact, with an entry
   removed, next to the untouched original *)
C25_Witness ==
    /\ rpc = "done"
    /\ ~args.stats_only
    /\ args.output_dir = "other"
    /\ 1 \in DOMAIN out_dir
    /\ files[1].html = GeneratedArtifact(files[1].html.data)
    /\ Len(Flatten(out_dir[1].data)) < Len(Flatten(files[1].html.data))

(* C26: for an artifact generate_feed_html paged at the configured size P,
   after any sequence of syncs with any ListenedSets the PageMap sync_feed
   returns is the chunking at P of the entries it retained: the chunk size
   read off the stored first page never gives another layout than P does. *)
C26_SameLayoutAsConfigured ==
    Synced => synced_pages = Paginate(Flatten(synced_pages), items_per_page)

(* three entries paged at P = 2; a first sync removed one and left a single
   page; a second sync with another ListenedSet removed one more *)
C26_Witness ==
    /\ pc = "synced"
    /\ round = 2
    /\ items_per_page = 2
    /\ Len(pages_data) = 1
    /\ Len(pages_data[1].items) = 2
    /\ pages_data[1].items[2].uid = 3
    /\ stats.removed = 1
    /\ Len(synced_pages) = 1

(* the URLs the articles of feed f mention *)
UrlsOf(f) ==
    LET articles == get_articles(arg_feeds[f])
    IN  UNION {extract_bandcamp_url(articles[n].text) \cup extract_youtube_url(articles[n].text)
               \cup extract_soundcloud_url(articles[n].text) : n \in DOMAIN articles}

(* the artifact of feed f, the file generate_feed_html wrote for it, is in   *)
(* the output directory and holds an entry of URL u                          *)
InArtifactOf(f, u) ==
    /\ FileOf(f) \in DOMAIN output_dir
    /\ output_dir[FileOf(f)].feed = f
    /\ \E k \in DOMAIN Flatten(output_dir[FileOf(f)].pages) :
          Flatten(output_dir[FileOf(f)].pages)[k].url = u

(* C28: the dedup sets live for one call of process_feed or process_category:
   a URL that occurs in two feeds of one invocation is resolved once for each
   of the two feeds and, when it gives an entry, is in the artifacts of both. *)
C28_DedupPerFeed ==
    main_pc = "done" =>
        \A f, g \in DOMAIN arg_feeds :
            f # g =>
                \A u \in UrlsOf(f) \cap UrlsOf(g) :
                    /\ u \in BandcampUrls =>
                          (feed_calls[f][u] = 1 /\ feed_calls[g][u] = 1)
                    /\ (u \notin BandcampUrls \/ resolutions[u].step > 0)
                          => (InArtifactOf(f, u) /\ InArtifactOf(g, u))

(* C29: in the paginated sequence two entries of the same kind that come from
   different articles and have the same formatted date (the same minute) are
   in the order in which their articles were processed. *)
C29_SameKindTiesInArticleOrder ==
    gpc = "generated" =>
        LET seq == Flatten(gen_pages)
        IN  \A j, k \in DOMAIN seq :
                (/\ j < k
                 /\ seq[j].type = seq[k].type
                 /\ seq[j].date = seq[k].date
                 /\ seq[j].title # seq[k].title)
                    => seq[j].title < seq[k].title

(* two bandcamp entries of the same minute, of the first and of the second
   article, on two pages *)
C29_Witness ==
    /\ gpc = "generated"
    /\ Len(gen_pages) = 2
    /\ gen_pages[1].items[1].type = "bandcamp"
    /\ gen_pages[2].items[1].type = "bandcamp"
    /\ gen_pages[1].items[1].date = gen_pages[2].items[1].date
    /\ gen_pages[1].items[1].title = 1
    /\ gen_pages[2].items[1].title = 2

(* the identifiers the marks of one kind carry in a page *)
IdsOf(marks, kinds) == {MarkValue(marks[i]) : i \in {j \in DOMAIN marks : marks[j] \in kinds}}

(* C30: in step 3 of the cascade, reached when steps 1 and 2 found nothing,
   every album pattern is tried before any track pattern: a page matching an
   album pattern and a track pattern resolves to the album identifier, and a
   track identifier is returned only when no album pattern matches. *)
C30_AlbumBeforeTrack ==
    (/\ cpc = "returned"
     /\ TralbumData(html_content.tralbum) = NoEmbed
     /\ html_content.embeddata = "none") =>
        LET albums == IdsOf(html_content.generic, AlbumMarks)
            tracks == IdsOf(html_content.generic, TrackMarks)
        IN  IF albums # {}
            THEN /\ embed_html.step = 3
                 /\ embed_html.album \in albums
                 /\ embed_html.track = 0
            ELSE IF tracks # {}
                 THEN /\ embed_html.step = 3
                      /\ embed_html.track \in tracks
                      /\ embed_html.album = 0
                 ELSE embed_html.step # 3

====
